---- MODULE Spec2Model ----
(***************************************************************************)
(* State-machine model of the real-time audio session of the voice agent:  *)
(* services/liveClient.ts (class LiveClient) and the part of App.tsx that  *)
(* drives it (handleToggleConnection).                                     *)
(*                                                                         *)
(* Every handler of the program is one action.  A handler that contains an *)
(* `await` is split at the await: connect() at getUserMedia (line 44) and  *)
(* handleMessage() at decodeAudioData (line 162).  Other handlers may run  *)
(* between the two halves.                                                 *)
(*                                                                         *)
(* Times are integer ticks of the output device clock.                     *)
(***************************************************************************)
EXTENDS Integers, Sequences, FiniteSets, TLC

\* ---- bounds -------------------------------------------------------------
MaxClients  == 2   \* LiveClient instances the App may construct
MaxMsgs     == 3   \* server messages delivered to one instance
MaxClock    == 1   \* ticks the output device clock may advance
MaxDur      == 1   \* longest decoded chunk, in ticks
MaxFrames   == 4   \* capture frames produced by one instance

\* ---- values -------------------------------------------------------------
NULL == "null"

DISCONNECTED == "disconnected"
CONNECTING   == "connecting"
CONNECTED    == "connected"
ERROR        == "error"

ConnectionState == {DISCONNECTED, CONNECTING, CONNECTED, ERROR}

Clients == 1..MaxClients

Max(a, b) == IF a >= b THEN a ELSE b

\* Substrings the error mapping looks for in a message (lower-cased).
Words == {"503", "unavailable", "network", "fetch"}

\* An error message: the text it is built from and the trigger substrings
\* it contains.
Msg(text, words) == [text |-> text, words |-> words]

\* ---- callbacks ----------------------------------------------------------
\* The callbacks a handler invoked, in order, are appended to field `out`.
\* Every argument is written as a Msg so that callbacks are comparable.
EvState(st)     == [cb |-> "onStateChange", arg |-> Msg(st, {})]
EvError(m)      == [cb |-> "onError",       arg |-> m]
EvTranscript(u) == [cb |-> "onTranscript",  arg |-> Msg(u, {})]
EvAudioData     == [cb |-> "onAudioData",   arg |-> Msg("frequencyData", {})]

\* States reported by a sequence of callbacks, in order.
RECURSIVE StatesOf(_)
StatesOf(evs) ==
  IF evs = <<>> THEN <<>>
  ELSE IF Head(evs).cb = "onStateChange"
       THEN <<Head(evs).arg.text>> \o StatesOf(Tail(evs))
       ELSE StatesOf(Tail(evs))

Emit(s, ev) ==
  [s EXCEPT !.out = Append(@, ev),
            !.lastState = IF ev.cb = "onStateChange" THEN ev.arg.text ELSE @,
            !.reportedError = @ \/ ev = EvState(ERROR)]

\* What a handler that schedules a chunk did: the chunk's arrival number,
\* the time handed to start(), the duration, the device time at that
\* moment and when the chunk arrived, the end of the chunk scheduled before
\* it (-1: none since the last interruption), and whether it is the first
\* chunk scheduled after an interruption.  id = 0: nothing was scheduled.
NoSched ==
  [id |-> 0, start |-> 0, dur |-> 0, now |-> 0, at |-> 0, prevEnd |-> -1,
   first |-> FALSE]

\* ---- the LiveClient object ----------------------------------------------
\* Fields of the class, followed by the environment's view of what the
\* object owns (live tracks, open contexts, channels) and by the position
\* of its suspended async calls.
NewLiveClient ==
  [ sessionPromise     |-> 0,        \* 0 (null) or index into chans
    inputAudioContext  |-> NULL,
    outputAudioContext |-> NULL,
    mediaStream        |-> NULL,
    processor          |-> NULL,
    source             |-> NULL,
    nextStartTime      |-> 0,
    sources            |-> {},       \* the active set: scheduled nodes
    analyser           |-> NULL,
    \* environment
    tracksLive         |-> FALSE,    \* a capture track is live
    inputOpen          |-> FALSE,    \* an input AudioContext is not closed
    outputOpen         |-> FALSE,    \* an output AudioContext is not closed
    wired              |-> FALSE,    \* capture graph connected: frames fire
    now                |-> 0,        \* outputAudioContext.currentTime
    chans              |-> <<>>,     \* channels opened by ai.live.connect
    stopped            |-> {},       \* ids of nodes stopped, 'ended' pending
    frameQueued        |-> FALSE,    \* an audioprocess event dispatched before
                                     \* the processor was disconnected may
                                     \* still be delivered
    \* suspended calls
    pc                 |-> "idle",   \* connect(): "idle" or "awaitMic"
    decoding           |-> {},       \* handleMessage calls awaiting decode
    \* history
    out                |-> <<>>,     \* callbacks of the last handler
    sched              |-> NoSched,  \* scheduling done by the last handler
    lastState          |-> NULL,     \* last state reported
    reportedError      |-> FALSE,    \* ERROR has been reported
    thrown             |-> FALSE,    \* last handler let an exception escape
    sendResult         |-> "none",   \* the frame of the last handler: "none",
                                     \* "dropped" (line 128), "sent", or
                                     \* "failed" (caught at line 137)
    sendFailures       |-> 0,        \* sends that failed so far
    ended              |-> "none",   \* the 'ended' event of the last handler:
                                     \* "none", "active" (its unit was in the
                                     \* active set) or "flushed" (it was not)
    caught             |-> "none",   \* what the catch of line 192 caught in
                                     \* the last handler: "none", "base64",
                                     \* "decode" or "context"
    connectCalled      |-> FALSE,    \* connect() has been called
    cap                |-> NULL,     \* capability found by connect()
    micRequested       |-> FALSE,    \* getUserMedia has been called
    lastEnd            |-> -1,       \* start + duration of the chunk last
                                     \* scheduled since the last interruption
    afterFlush         |-> FALSE,    \* interrupted, nothing scheduled since
    flushed            |-> 0,        \* messages received when the last
                                     \* interruption was processed
    nmsg               |-> 0,        \* messages delivered so far
    nframe             |-> 0,        \* capture frames produced so far
    sent               |-> 0 ]       \* sendRealtimeInput calls so far

\* A channel returned by ai.live.connect: the websocket's state and the
\* state of the promise sessionPromise refers to.
\* buf counts the frames handed to the socket and not yet transmitted.
NewChannel == [st |-> "connecting", promise |-> "pending", buf |-> 0]

\* A handler starts with an empty callback record.
Enter(s) ==
  [s EXCEPT !.out = <<>>, !.thrown = FALSE, !.caught = "none",
            !.sendResult = "none", !.ended = "none", !.sched = NoSched]

\* ---- playback scheduler -------------------------------------------------
\* An AudioBufferSourceNode that was started: the arrival number of its
\* chunk, the time handed to start(), the buffer's duration, and the device
\* time at which it begins to sound (start() in the past plays at once).
Node(id, start, dur, now) ==
  [id |-> id, start |-> start, dur |-> dur, began |-> Max(start, now)]

Ids(nodes) == {u.id : u \in nodes}

\* lines 199 and 262: sources.forEach(s => s.stop())
StopAll(s) == [s EXCEPT !.stopped = @ \cup Ids(s.sources)]

\* Flush without line 201
FlushKeepTimeline(s) ==
  [StopAll(s) EXCEPT !.sources = {},
                     !.lastEnd = -1,
                     !.afterFlush = TRUE,
                     !.flushed = s.nmsg]

\* the interruption block written as a call of disconnect() followed by
\* line 201
FlushByDisconnect(s) ==
  [StopAll(Emit(s, EvState(DISCONNECTED))) EXCEPT
     !.tracksLive = FALSE, !.wired = FALSE,
     !.inputOpen = FALSE, !.outputOpen = FALSE,
     !.sources = {}, !.sessionPromise = 0,
     !.inputAudioContext = NULL, !.outputAudioContext = NULL,
     !.processor = NULL, !.source = NULL, !.mediaStream = NULL,
     !.nextStartTime = 0,
     !.lastEnd = -1,
     !.afterFlush = TRUE,
     !.flushed = s.nmsg]

\* lines 198-202: the interruption block of handleMessage
Flush(s) ==
  [StopAll(s) EXCEPT !.sources = {},
                     !.nextStartTime = 0,
                     !.lastEnd = -1,
                     !.afterFlush = TRUE,
                     !.flushed = s.nmsg]

HandleInterruption(s, interrupted) ==
  IF interrupted THEN Flush(s) ELSE s

\* visualize() whose requestAnimationFrame callback samples once more
VisualizeLoop(s) ==
  IF s.analyser = NULL THEN s
  ELSE Emit(Emit(s, EvAudioData), EvAudioData)

\* lines 205-214
Visualize(s) ==
  IF s.analyser = NULL THEN s ELSE Emit(s, EvAudioData)

\* Schedule with source.start(currentTime) in place of line 183
ScheduleAtDeviceTime(s, d) ==
  LET source == Node(d.id, s.now, d.dur, s.now)
      s1 == [s EXCEPT !.nextStartTime = @ + d.dur,
                      !.sources = @ \cup {source},
                      !.sched = [id |-> d.id, start |-> source.start,
                                 dur |-> d.dur, now |-> s.now, at |-> d.at,
                                 prevEnd |-> s.lastEnd,
                                 first |-> s.afterFlush],
                      !.lastEnd = source.start + d.dur,
                      !.afterFlush = FALSE]
  IN IF s.analyser # NULL THEN Visualize(s1) ELSE s1

\* Schedule with line 184 written as nextStartTime = currentTime + duration
ScheduleFromNow(s, d) ==
  LET source == Node(d.id, s.nextStartTime, d.dur, s.now)
      s1 == [s EXCEPT !.nextStartTime = s.now + d.dur,
                      !.sources = @ \cup {source},
                      !.sched = [id |-> d.id, start |-> source.start,
                                 dur |-> d.dur, now |-> s.now, at |-> d.at,
                                 prevEnd |-> s.lastEnd,
                                 first |-> s.afterFlush],
                      !.lastEnd = source.start + d.dur,
                      !.afterFlush = FALSE]
  IN IF s.analyser # NULL THEN Visualize(s1) ELSE s1

\* lines 169-190: bind the decoded buffer to a source and schedule it
Schedule(s, d) ==
  LET source == Node(d.id, s.nextStartTime, d.dur, s.now)
      s1 == [s EXCEPT !.nextStartTime = @ + d.dur,
                      !.sources = @ \cup {source},
                      !.sched = [id |-> d.id, start |-> source.start,
                                 dur |-> d.dur, now |-> s.now, at |-> d.at,
                                 prevEnd |-> s.lastEnd,
                                 first |-> s.afterFlush],
                      !.lastEnd = source.start + d.dur,
                      !.afterFlush = FALSE]
  IN IF s.analyser # NULL THEN Visualize(s1) ELSE s1

\* line 160 without Math.max
FloorToNowReset(s) == [s EXCEPT !.nextStartTime = s.now]

\* line 160
FloorToNow(s) == [s EXCEPT !.nextStartTime = Max(@, s.now)]

\* lines 147-153
Transcripts(s, m) ==
  LET s1 == IF m.inText THEN Emit(s, EvTranscript("user")) ELSE s
  IN IF m.outText THEN Emit(s1, EvTranscript("model")) ELSE s1

\* handleMessage up to the await of line 162.  m.audio is "none" (no inline
\* data), "badB64" (base64ToUint8Array throws), "badPcm" (decodeAudioData
\* rejects) or "ok" (it resolves to a buffer of duration m.dur).
HandleMessageBegin(s, m) ==
  LET s1 == Transcripts([Enter(s) EXCEPT !.nmsg = @ + 1], m)
  IN IF m.audio # "none" /\ s1.outputAudioContext # NULL
     THEN IF m.audio = "badB64"
          THEN HandleInterruption([s1 EXCEPT !.caught = "base64"],
                                  m.interrupted)
          ELSE [FloorToNow(s1) EXCEPT
                  !.decoding = @ \cup {[id |-> m.id, ok |-> m.audio = "ok",
                                        dur |-> m.dur, at |-> s.now,
                                        interrupted |-> m.interrupted]}]
     ELSE HandleInterruption(s1, m.interrupted)

\* handleMessage resumed with the output context held in a local variable
\* taken before the await, in place of this.outputAudioContext at line 169
HandleMessageResumeLocalContext(s, d) ==
  LET s0 == [Enter(s) EXCEPT !.decoding = @ \ {d}]
      s1 == IF ~d.ok THEN [s0 EXCEPT !.caught = "decode"]
            ELSE Schedule(s0, d)
  IN HandleInterruption(s1, d.interrupted)

\* handleMessage from the completion of decodeAudioData to its end.  A
\* rejected decode, and the TypeError of line 169 when disconnect() has set
\* outputAudioContext to null meanwhile, are caught at line 192.
HandleMessageResume(s, d) ==
  LET s0 == [Enter(s) EXCEPT !.decoding = @ \ {d}]
      s1 == IF ~d.ok THEN [s0 EXCEPT !.caught = "decode"]
            ELSE IF s0.outputAudioContext = NULL
                 THEN [s0 EXCEPT !.caught = "context"]
                 ELSE Schedule(s0, d)
  IN HandleInterruption(s1, d.interrupted)

\* the 'ended' listener written as this.sources.clear()
OnEndedClear(s, id) ==
  [s EXCEPT !.sources = {},
            !.stopped = @ \ {id},
            !.ended = IF id \in Ids(s.sources) THEN "active" ELSE "flushed"]

\* the 'ended' listener of lines 179-181, for the node of chunk id
OnEnded(s, id) ==
  [s EXCEPT !.sources = {u \in @ : u.id # id},
            !.stopped = @ \ {id},
            !.ended = IF id \in Ids(s.sources) THEN "active" ELSE "flushed"]

\* ---- session lifecycle --------------------------------------------------
\* disconnect() with line 250 written without `?.`
DisconnectUnguarded(s) ==
  LET s1 == Emit(s, EvState(DISCONNECTED))
  IN IF s.mediaStream = NULL THEN [s1 EXCEPT !.thrown = TRUE]
     ELSE [StopAll(s1) EXCEPT
             !.tracksLive = FALSE, !.wired = FALSE,
             !.frameQueued = s.wired \/ s.frameQueued,
             !.inputOpen = FALSE, !.outputOpen = FALSE,
             !.sources = {}, !.sessionPromise = 0,
             !.inputAudioContext = NULL, !.outputAudioContext = NULL,
             !.processor = NULL, !.source = NULL, !.mediaStream = NULL]

\* disconnect() without line 265
DisconnectKeepSession(s) ==
  LET s1 == Emit(s, EvState(DISCONNECTED))
  IN [StopAll(s1) EXCEPT
        !.tracksLive = IF s.mediaStream # NULL THEN FALSE ELSE @,
        !.wired      = IF s.source # NULL \/ s.processor # NULL
                          \/ s.inputAudioContext # NULL THEN FALSE ELSE @,
        !.frameQueued = IF s.source # NULL \/ s.processor # NULL
                           \/ s.inputAudioContext # NULL
                        THEN s.wired \/ s.frameQueued ELSE @,
        !.inputOpen  = IF s.inputAudioContext # NULL THEN FALSE ELSE @,
        !.outputOpen = IF s.outputAudioContext # NULL THEN FALSE ELSE @,
        !.sources    = {},
        !.inputAudioContext  = NULL,
        !.outputAudioContext = NULL,
        !.processor          = NULL,
        !.source             = NULL,
        !.mediaStream        = NULL]

\* lines 246-271.  Every release is guarded by `?.`; the environment's
\* resource is released only through the handle the object still holds.
\* The channel is not touched: only the reference to its promise is dropped.
Disconnect(s) ==
  LET s1 == Emit(s, EvState(DISCONNECTED))
  IN [StopAll(s1) EXCEPT
        !.tracksLive = IF s.mediaStream # NULL THEN FALSE ELSE @,
        !.wired      = IF s.source # NULL \/ s.processor # NULL
                          \/ s.inputAudioContext # NULL THEN FALSE ELSE @,
        !.frameQueued = IF s.source # NULL \/ s.processor # NULL
                           \/ s.inputAudioContext # NULL
                        THEN s.wired \/ s.frameQueued ELSE @,
        !.inputOpen  = IF s.inputAudioContext # NULL THEN FALSE ELSE @,
        !.outputOpen = IF s.outputAudioContext # NULL THEN FALSE ELSE @,
        !.sources    = {},
        !.sessionPromise     = 0,
        !.inputAudioContext  = NULL,
        !.outputAudioContext = NULL,
        !.processor          = NULL,
        !.source             = NULL,
        !.mediaStream        = NULL]

ServiceMsgConnect == Msg("Service unavailable (503). The server is temporarily overloaded. Please try again in a few moments.", {"503", "unavailable"})
ServiceMsgChannel == Msg("Service unavailable. Please try again shortly.", {"unavailable"})
NetworkMsg        == Msg("Network error. Please check your internet connection.", {"network"})
FailedMsg         == Msg("Failed to connect", {})
SecureContextMsg  == Msg("Microphone access requires a secure context (HTTPS) or localhost.", {})
UnsupportedMsg    == Msg("Your browser does not support audio input. Please use a modern browser.", {})
NoMicMsg          == Msg("No microphone found. Please connect a microphone and try again.", {})
DeniedMsg         == Msg("Microphone permission denied. Please allow access in your browser settings.", {})
GenericMsg        == Msg("An error occurred with the voice connection.", {})
LostMsg           == Msg("Connection to the service was lost.", {})

\* line 55: `Microphone error: ${e.message}` contains what e.message does
MicOtherMsg(m)    == Msg("Microphone error: " \o m.text, m.words)

\* lines 49-55: classification of a getUserMedia rejection e, with
\* e.name, e.message (a Msg) and e.dnf (message includes 'device not found')
ClassifyMicError(e) ==
  IF e.name \in {"NotFoundError", "DevicesNotFoundError"} \/ e.dnf
  THEN NoMicMsg
  ELSE IF e.name \in {"NotAllowedError", "PermissionDeniedError"}
       THEN DeniedMsg
       ELSE MicOtherMsg(e.message)

\* lines 99-106
MapConnectError(m) ==
  LET msg == IF m.text = "" THEN FailedMsg ELSE m
  IN IF "503" \in msg.words \/ "unavailable" \in msg.words
     THEN ServiceMsgConnect
     ELSE IF "network" \in msg.words \/ "fetch" \in msg.words
          THEN NetworkMsg
          ELSE msg

\* the catch block without line 109
ConnectCatchNoState(s, error) ==
  Disconnect(Emit(s, EvError(MapConnectError(error))))

\* lines 97-112: the catch block of connect()
ConnectCatch(s, error) ==
  Disconnect(Emit(Emit(s, EvError(MapConnectError(error))), EvState(ERROR)))

\* connect() without the check of lines 34-39
ConnectBeginUnchecked(s, cap) ==
  [Emit([Enter(s) EXCEPT !.connectCalled = TRUE, !.cap = cap],
        EvState(CONNECTING))
     EXCEPT !.pc = "awaitMic", !.micRequested = TRUE]

\* lines 29-46: connect() up to the await of getUserMedia.  cap is "ok",
\* "insecure" (no mediaDevices, not a secure context) or "unsupported".
ConnectBegin(s, cap) ==
  LET s1 == Emit([Enter(s) EXCEPT !.connectCalled = TRUE, !.cap = cap],
                 EvState(CONNECTING))
  IN IF cap = "insecure" THEN ConnectCatch(s1, SecureContextMsg)
     ELSE IF cap = "unsupported" THEN ConnectCatch(s1, UnsupportedMsg)
     ELSE [s1 EXCEPT !.pc = "awaitMic", !.micRequested = TRUE]

\* lines 47-56 and 97-112: getUserMedia rejected with e
ConnectMicRejected(s, e) ==
  ConnectCatch([Enter(s) EXCEPT !.pc = "idle"], ClassifyMicError(e))

\* connect() with a statement that throws placed after line 95: the channel
\* is already being opened when the catch block runs
ConnectMicResolvedLate(s, fail, err) ==
  LET s1 == [Enter(s) EXCEPT !.pc = "idle",
                             !.mediaStream = "stream", !.tracksLive = TRUE]
      s2 == [s1 EXCEPT !.inputAudioContext = "ctx", !.inputOpen = TRUE]
      s3 == [s2 EXCEPT !.outputAudioContext = "ctx", !.outputOpen = TRUE,
                       !.now = 0, !.analyser = "node"]
      s4 == [s3 EXCEPT !.chans = Append(@, NewChannel),
                       !.sessionPromise = Len(s3.chans) + 1]
  IN CASE fail = "inputCtx"  -> ConnectCatch(s1, err)
       [] fail = "outputCtx" -> ConnectCatch(s2, err)
       [] fail = "connect"   -> ConnectCatch(s4, err)
       [] OTHER              -> s4

\* lines 44 and 58-95: getUserMedia resolved.  fail is "none", or the
\* statement that throws: "inputCtx" (line 59), "outputCtx" (line 60) or
\* "connect" (line 77), with error message err.
ConnectMicResolved(s, fail, err) ==
  LET s1 == [Enter(s) EXCEPT !.pc = "idle",
                             !.mediaStream = "stream", !.tracksLive = TRUE]
      s2 == [s1 EXCEPT !.inputAudioContext = "ctx", !.inputOpen = TRUE]
      s3 == [s2 EXCEPT !.outputAudioContext = "ctx", !.outputOpen = TRUE,
                       !.now = 0, !.analyser = "node"]
      s4 == [s3 EXCEPT !.chans = Append(@, NewChannel),
                       !.sessionPromise = Len(s3.chans) + 1]
  IN CASE fail = "inputCtx"  -> ConnectCatch(s1, err)
       [] fail = "outputCtx" -> ConnectCatch(s2, err)
       [] fail = "connect"   -> ConnectCatch(s3, err)
       [] OTHER              -> s4

\* lines 120-144 (without the frame callback)
StartAudioInput(s) ==
  IF s.inputAudioContext = NULL \/ s.mediaStream = NULL THEN s
  ELSE [s EXCEPT !.source = "node", !.processor = "node", !.wired = TRUE]

\* lines 115-118
HandleOpen(s) ==
  StartAudioInput(Emit(Enter(s), EvState(CONNECTED)))

\* lines 216-219
HandleClose(s) == Disconnect(Enter(s))

\* lines 224-240: e.type is "ErrorEvent", "Error", "string" or "other"
ChannelErrorMsg(e) ==
  LET errorMsg ==
        CASE e.type = "ErrorEvent" ->
               IF e.message.text = "" THEN LostMsg ELSE e.message
          [] e.type \in {"Error", "string"} -> e.message
          [] OTHER -> GenericMsg
  IN IF "503" \in errorMsg.words \/ "unavailable" \in errorMsg.words
     THEN ServiceMsgChannel
     ELSE IF "network" \in errorMsg.words \/ "fetch" \in errorMsg.words
          THEN NetworkMsg
          ELSE errorMsg

\* lines 221-244
HandleError(s, e) ==
  Disconnect(Emit(Enter(s), EvError(ChannelErrorMsg(e))))

\* the onaudioprocess callback with a .catch that reports the failure and
\* tears the session down, as handleError does
OnAudioProcessReporting(s, fails) ==
  LET s1 == [Enter(s) EXCEPT !.nframe = @ + 1, !.frameQueued = FALSE,
                             !.sendResult = "dropped"]
  IN IF s.sessionPromise = 0 THEN s1
     ELSE IF s.chans[s.sessionPromise].promise = "resolved"
          THEN IF fails
               THEN Disconnect(Emit([s1 EXCEPT !.sent = @ + 1,
                                               !.sendResult = "failed",
                                               !.sendFailures = @ + 1],
                                    EvError(GenericMsg)))
               ELSE [s1 EXCEPT !.sent = @ + 1, !.sendResult = "sent",
                               !.chans[s.sessionPromise].buf = @ + 1]
          ELSE s1

\* lines 126-140: the onaudioprocess callback with the .then callback it
\* registers.  The processor exists only once handleOpen has run, when the
\* promise is settled, so the .then callback runs in the microtask that
\* follows the callback and no other handler comes between the two; on a
\* promise that is not resolved nothing is sent.  sendRealtimeInput hands
\* the frame to the socket, which buffers it until it is transmitted; if
\* sendRealtimeInput throws (fails), the .catch of line 137 swallows it.
OnAudioProcess(s, fails) ==
  LET s1 == [Enter(s) EXCEPT !.nframe = @ + 1, !.frameQueued = FALSE,
                             !.sendResult = "dropped"]
  IN IF s.sessionPromise = 0 THEN s1
     ELSE IF s.chans[s.sessionPromise].promise = "resolved"
          THEN IF fails
               THEN [s1 EXCEPT !.sent = @ + 1, !.sendResult = "failed",
                               !.sendFailures = @ + 1]
               ELSE [s1 EXCEPT !.sent = @ + 1, !.sendResult = "sent",
                               !.chans[s.sessionPromise].buf = @ + 1]
          ELSE s1

\* ---- inputs -------------------------------------------------------------
Capabilities == {"ok", "insecure", "unsupported"}

\* getUserMedia rejections
MicErrors ==
  { [name |-> "NotFoundError",   message |-> Msg("Requested device not found", {}), dnf |-> FALSE],
    [name |-> "NotAllowedError", message |-> Msg("Permission denied", {}), dnf |-> FALSE],
    [name |-> "NotReadableError", message |-> Msg("Could not start audio source", {}), dnf |-> FALSE],
    [name |-> "NotReadableError", message |-> Msg("Device unavailable", {"unavailable"}), dnf |-> FALSE],
    [name |-> "OverconstrainedError", message |-> Msg("device not found", {}), dnf |-> TRUE] }

\* synchronous failures after the microphone was granted
SetupFailures == {"none", "inputCtx", "outputCtx", "connect"}
SetupErrors ==
  { Msg("The number of hardware contexts provided has been reached", {}),
    Msg("", {}),
    Msg("Failed to fetch", {"fetch"}) }

\* values handed to the channel's onerror callback
ChannelErrors ==
  { [type |-> "ErrorEvent", message |-> Msg("", {})],
    [type |-> "Error",      message |-> Msg("503 Service Unavailable", {"503", "unavailable"})],
    [type |-> "string",     message |-> Msg("network down", {"network"})],
    [type |-> "other",      message |-> Msg("", {})] }

AudioKinds == {"none", "badB64", "badPcm", "ok"}

\* messages the server may deliver, with arrival sequence number id
Messages(id) ==
  { m \in [id : {id}, audio : AudioKinds, dur : 0..MaxDur,
            interrupted : BOOLEAN, inText : {FALSE}, outText : BOOLEAN] :
      /\ m.audio # "ok" => m.dur = 0
      /\ m.audio # "none" => ~m.outText }

\* ---- state -------------------------------------------------------------
VARIABLES
  lc,               \* the LiveClient instances, by number
  created,          \* number of instances constructed so far
  clientRef,        \* App: clientRef.current (0 is null)
  connectionState   \* App: what onStateChange last set

vars == <<lc, created, clientRef, connectionState>>

Last(seq) == seq[Len(seq)]

\* App.tsx 54: onStateChange of every LiveClient is setConnectionState
AfterStateChange(cur, out) ==
  IF StatesOf(out) = <<>> THEN cur ELSE Last(StatesOf(out))

\* instance c ran a handler and is now s
Ran(c, s) ==
  /\ lc' = [lc EXCEPT ![c] = s]
  /\ connectionState' = AfterStateChange(connectionState, s.out)

Live == 1..created

TornDown(s) ==
  /\ s.sessionPromise = 0
  /\ s.inputAudioContext = NULL /\ s.outputAudioContext = NULL
  /\ s.mediaStream = NULL /\ s.processor = NULL /\ s.source = NULL
  /\ s.sources = {}

\* ---- actions: a direct caller of one LiveClient ------------------------
\* connect() is called once on an instance: every connect request of the
\* program is made on a newly constructed LiveClient (App.tsx 53 and 84)
Connect(c) ==
  /\ ~lc[c].connectCalled
  /\ \E cap \in Capabilities : Ran(c, ConnectBegin(lc[c], cap))
  /\ UNCHANGED <<created, clientRef>>

DisconnectCall(c) ==
  /\ Ran(c, Disconnect(Enter(lc[c])))
  /\ UNCHANGED <<created, clientRef>>

\* ---- actions: the App --------------------------------------------------
\* App.tsx 40-85; the button is disabled while CONNECTING (App.tsx 182)
HandleToggleConnection ==
  /\ connectionState # CONNECTING
  /\ IF connectionState = CONNECTED \/ connectionState = CONNECTING
     THEN /\ IF clientRef # 0
             THEN Ran(clientRef, Disconnect(Enter(lc[clientRef])))
             ELSE UNCHANGED <<lc, connectionState>>
          /\ UNCHANGED <<created, clientRef>>
     ELSE \E apiKey \in BOOLEAN :
            IF ~apiKey
            THEN UNCHANGED <<lc, created, clientRef, connectionState>>
            ELSE /\ created < MaxClients
                 /\ created' = created + 1
                 /\ clientRef' = created + 1
                 /\ \E cap \in Capabilities :
                      LET s == ConnectBegin(NewLiveClient, cap)
                      IN /\ lc' = [lc EXCEPT ![created + 1] = s]
                         /\ connectionState' =
                              AfterStateChange(connectionState, s.out)

\* ---- actions: the environment ------------------------------------------
MicResolved(c) ==
  /\ lc[c].pc = "awaitMic"
  /\ \E fail \in SetupFailures :
       \E err \in (IF fail = "none" THEN {Msg("", {})} ELSE SetupErrors) :
         Ran(c, ConnectMicResolved(lc[c], fail, err))
  /\ UNCHANGED <<created, clientRef>>

MicRejected(c) ==
  /\ lc[c].pc = "awaitMic"
  /\ \E e \in MicErrors : Ran(c, ConnectMicRejected(lc[c], e))
  /\ UNCHANGED <<created, clientRef>>

SetChan(s, i, st, promise) ==
  [s EXCEPT !.chans[i].st = st, !.chans[i].promise = promise]

Settled(ch) == IF ch.promise = "pending" THEN "rejected" ELSE ch.promise

ChannelOpen(c, i) ==
  /\ lc[c].chans[i].st = "connecting"
  /\ Ran(c, HandleOpen(SetChan(lc[c], i, "open", "resolved")))
  /\ UNCHANGED <<created, clientRef>>

ChannelError(c, i) ==
  /\ lc[c].chans[i].st \in {"connecting", "open"}
  /\ \E e \in ChannelErrors :
       Ran(c, HandleError(SetChan(lc[c], i, "errored", Settled(lc[c].chans[i])), e))
  /\ UNCHANGED <<created, clientRef>>

ChannelClose(c, i) ==
  /\ lc[c].chans[i].st \in {"connecting", "open", "errored"}
  /\ Ran(c, HandleClose(SetChan(lc[c], i, "closed", Settled(lc[c].chans[i]))))
  /\ UNCHANGED <<created, clientRef>>

MessageArrives(c, i) ==
  /\ lc[c].chans[i].st = "open"
  /\ lc[c].nmsg < MaxMsgs
  /\ \E m \in Messages(lc[c].nmsg + 1) : Ran(c, HandleMessageBegin(lc[c], m))
  /\ UNCHANGED <<created, clientRef>>

DecodeSettles(c) ==
  /\ \E d \in lc[c].decoding : Ran(c, HandleMessageResume(lc[c], d))
  /\ UNCHANGED <<created, clientRef>>

Tick(c) ==
  /\ lc[c].outputOpen /\ lc[c].now < MaxClock
  /\ lc' = [lc EXCEPT ![c].now = @ + 1]
  /\ UNCHANGED <<created, clientRef, connectionState>>

\* 'ended' fires for a node that has played to its end or was stopped
PlaybackEnds(c) ==
  /\ \E id \in {u.id : u \in {v \in lc[c].sources :
                                 lc[c].now >= v.began + v.dur}}
               \cup lc[c].stopped :
       Ran(c, OnEnded(Enter(lc[c]), id))
  /\ UNCHANGED <<created, clientRef>>

\* the processor delivers a frame: while the capture graph is connected,
\* and once more for an event dispatched before it was disconnected
FrameReady(c) ==
  /\ (lc[c].wired /\ lc[c].inputOpen) \/ lc[c].frameQueued
  /\ lc[c].nframe < MaxFrames
  /\ \E fails \in BOOLEAN : Ran(c, OnAudioProcess(lc[c], fails))
  /\ UNCHANGED <<created, clientRef>>

\* the socket transmits the oldest frame it buffers
ChannelDrains(c, i) ==
  /\ lc[c].chans[i].st = "open"
  /\ lc[c].chans[i].buf > 0
  /\ lc' = [lc EXCEPT ![c].chans[i].buf = @ - 1]
  /\ UNCHANGED <<created, clientRef, connectionState>>

\* ---- specifications ----------------------------------------------------
Lifecycle(c) ==
  \/ MicResolved(c)
  \/ MicRejected(c)
  \/ \E i \in DOMAIN lc[c].chans : ChannelOpen(c, i)
  \/ \E i \in DOMAIN lc[c].chans : ChannelError(c, i)
  \/ \E i \in DOMAIN lc[c].chans : ChannelClose(c, i)

Init ==
  /\ lc = [c \in Clients |-> NewLiveClient]
  /\ created = 1
  /\ clientRef = 1
  /\ connectionState = DISCONNECTED

\* Spec: the playback scheduler of one LiveClient whose connect() and
\* disconnect() are called directly.
Next ==
  \E c \in Live :
    \/ Connect(c)
    \/ DisconnectCall(c)
    \/ MicResolved(c)
    \/ \E i \in DOMAIN lc[c].chans : ChannelOpen(c, i)
    \/ \E i \in DOMAIN lc[c].chans : MessageArrives(c, i)
    \/ DecodeSettles(c)
    \/ Tick(c)
    \/ PlaybackEnds(c)

Spec == Init /\ [][Next]_vars

\* SpecSession: the lifecycle and the capture pipeline of one LiveClient
\* whose connect() and disconnect() are called directly; the server sends
\* no message.
NextSession ==
  \E c \in Live :
    \/ Connect(c)
    \/ DisconnectCall(c)
    \/ Lifecycle(c)
    \/ FrameReady(c)
    \/ \E i \in DOMAIN lc[c].chans : ChannelDrains(c, i)
    \/ Tick(c)

SpecSession == Init /\ [][NextSession]_vars

\* SpecApp: the App constructing and toggling LiveClient instances.
InitApp ==
  /\ lc = [c \in Clients |-> NewLiveClient]
  /\ created = 0
  /\ clientRef = 0
  /\ connectionState = DISCONNECTED

NextApp ==
  \/ HandleToggleConnection
  \/ \E c \in Live : Lifecycle(c)

SpecApp == InitApp /\ [][NextApp]_vars

\* ---- properties ---------------------------------------------------------
Min(a, b) == IF a <= b THEN a ELSE b

\* [start, start + dur) of u and of v intersect
Overlap(u, v) ==
  Max(u.start, v.start) < Min(u.start + u.dur, v.start + v.dur)

\* C1: no two playback units of the active set have intersecting scheduled
\* intervals [start, start + duration), start being the time handed to
\* source.start().
C1_NoOverlap ==
  \A c \in Live : \A u, v \in lc[c].sources : u # v => ~Overlap(u, v)

C1_Witness ==
  \E c \in Live : \E u, v \in lc[c].sources :
     u # v /\ u.dur > 0 /\ v.dur > 0

\* the step of instance c is a handleMessage call that reaches its end
\* for a message whose interrupted flag is set
InterruptionHandled(c) ==
  \/ \E m \in Messages(lc[c].nmsg + 1) :
       /\ m.interrupted
       /\ lc'[c] = HandleMessageBegin(lc[c], m)
       /\ lc'[c].decoding = lc[c].decoding
  \/ \E d \in lc[c].decoding :
       /\ d.interrupted
       /\ lc'[c] = HandleMessageResume(lc[c], d)

\* C2: when handleMessage has processed a message whose interrupted flag is
\* set, nextStartTime is 0, the active set is empty, and every unit that was
\* in the active set, the one made from the message's own audio included,
\* has been stopped.
C2_InterruptionResets ==
  [][\A c \in Live :
       InterruptionHandled(c) =>
         /\ lc'[c].nextStartTime = 0
         /\ lc'[c].sources = {}
         /\ Ids(lc[c].sources) \subseteq lc'[c].stopped
         /\ lc'[c].sched.id # 0 => lc'[c].sched.id \in lc'[c].stopped]_vars

C2_Witness ==
  \E c \in Live :
     /\ lc[c].outputAudioContext # NULL
     /\ lc[c].afterFlush /\ lc[c].sources = {} /\ lc[c].nextStartTime = 0
     /\ Cardinality(lc[c].stopped) >= 2

C4_FreshAfterInterruption ==
  \A c \in Live :
     LET e == lc[c].sched
     IN (e.id # 0 /\ e.first) => e.start >= e.now

\* no handle, no live device resource, no active unit
Released(s) ==
  /\ TornDown(s)
  /\ ~s.tracksLive /\ ~s.inputOpen /\ ~s.outputOpen /\ ~s.wired

ChannelOpenOrOpening(s) ==
  \E i \in DOMAIN s.chans : s.chans[i].st \in {"connecting", "open"}

\* C5: once disconnect() has run (the instance last reported Disconnected)
\* the session holds no input device, no output device, no active playback
\* unit and no open remote channel.
C5_DisconnectReleasesAll ==
  \A c \in Live :
     lc[c].lastState = DISCONNECTED =>
       Released(lc[c]) /\ ~ChannelOpenOrOpening(lc[c])

Handles(s) ==
  <<s.sessionPromise, s.inputAudioContext, s.outputAudioContext,
    s.mediaStream, s.processor, s.source, s.analyser, s.sources>>

\* the step of instance c ended with a run of disconnect()
DisconnectRan(c) ==
  /\ lc'[c].out # <<>>
  /\ Last(lc'[c].out) = EvState(DISCONNECTED)

\* C6: every run of disconnect() completes without raising and leaves all
\* resources released and the active set empty, and a run on a session
\* already torn down leaves every handle and the active set as they were.
C6_DisconnectIdempotent ==
  [][\A c \in Live :
       DisconnectRan(c) =>
         /\ ~lc'[c].thrown
         /\ Released(lc'[c])
         /\ (Released(lc[c]) /\ lc'[c] = Disconnect(Enter(lc[c])))
              => Handles(lc'[c]) = Handles(lc[c])]_vars

\* disconnect() has run on a session that failed at line 77: the stream
\* and both contexts had been acquired, no channel was ever opened
C6_Witness ==
  \E c \in Live :
     /\ lc[c].micRequested /\ lc[c].pc = "idle" /\ lc[c].chans = <<>>
     /\ lc[c].analyser # NULL
     /\ lc[c].out # <<>> /\ Last(lc[c].out) = EvState(DISCONNECTED)
     /\ Released(lc[c])

Holds(s) == ~Released(s) \/ ChannelOpenOrOpening(s)

\* C7: at most one LiveClient instance holds device or channel resources.
C7_SingleSession ==
  Cardinality({c \in Live : Holds(lc[c])}) <= 1

\* onError and ERROR are both reported before DISCONNECTED
ErrorBeforeTeardown(out) ==
  \E i, j, k \in DOMAIN out :
     /\ out[i].cb = "onError" /\ out[j] = EvState(ERROR)
     /\ out[k] = EvState(DISCONNECTED)
     /\ i < k /\ j < k

\* the step of instance c handled a failed capability check, a failed
\* device acquisition, a channel error event or a channel close
FailureHandled(c) ==
  \/ /\ ~lc[c].connectCalled
     /\ \E cap \in Capabilities \ {"ok"} : lc'[c] = ConnectBegin(lc[c], cap)
  \/ /\ lc[c].pc = "awaitMic"
     /\ \E e \in MicErrors : lc'[c] = ConnectMicRejected(lc[c], e)
  \/ \E i \in DOMAIN lc[c].chans :
       /\ lc[c].chans[i].st \in {"connecting", "open"}
       /\ \E e \in ChannelErrors :
            lc'[c] = HandleError(SetChan(lc[c], i, "errored",
                                         Settled(lc[c].chans[i])), e)
  \/ \E i \in DOMAIN lc[c].chans :
       /\ lc[c].chans[i].st \in {"connecting", "open", "errored"}
       /\ lc'[c] = HandleClose(SetChan(lc[c], i, "closed",
                                       Settled(lc[c].chans[i])))

\* C8: every such failure reports state Error and invokes onError, both
\* before the teardown reports Disconnected.
C8_FailuresReportError ==
  [][\A c \in Live :
       FailureHandled(c) => ErrorBeforeTeardown(lc'[c].out)]_vars

\* the step of instance c handled a rejection of getUserMedia
DeviceFailureHandled(c) ==
  /\ lc[c].pc = "awaitMic"
  /\ \E e \in MicErrors : lc'[c] = ConnectMicRejected(lc[c], e)

C10_FailClosed ==
  \A c \in Live :
     (lc[c].connectCalled /\ lc[c].cap # "ok") =>
       /\ lc[c].reportedError
       /\ ~lc[c].micRequested /\ lc[c].pc = "idle"
       /\ Released(lc[c]) /\ lc[c].analyser = NULL
       /\ lc[c].chans = <<>>

C10_Witness ==
  \E c \in Live :
     /\ lc[c].connectCalled /\ lc[c].cap = "insecure"
     /\ lc[c].reportedError /\ lc[c].lastState = DISCONNECTED

\* the onError arguments among the callbacks out
ErrorsOf(out) == {out[i].arg : i \in {j \in DOMAIN out : out[j].cb = "onError"}}

\* the class of a device-acquisition failure
MicErrorClass(e) ==
  IF e.name \in {"NotFoundError", "DevicesNotFoundError"} \/ e.dnf
  THEN "notFound"
  ELSE IF e.name \in {"NotAllowedError", "PermissionDeniedError"}
       THEN "denied"
       ELSE "other"

\* C11: a device-acquisition failure is reported through onError with one
\* message per class: the not-found message, the permission-denied message,
\* and for any other failure the device's own message passed through, which
\* is never the network or the service-overloaded message; the three are
\* pairwise distinct.
C11_DeviceMessageByClass ==
  [][\A c \in Live : \A e \in MicErrors :
       (lc[c].pc = "awaitMic" /\ lc'[c] = ConnectMicRejected(lc[c], e)) =>
          LET passed == MicOtherMsg(e.message)
          IN /\ NoMicMsg # DeniedMsg
             /\ passed \notin {NoMicMsg, DeniedMsg}
             /\ ErrorsOf(lc'[c].out) =
                  { CASE MicErrorClass(e) = "notFound" -> NoMicMsg
                      [] MicErrorClass(e) = "denied"   -> DeniedMsg
                      [] OTHER                         -> passed }
             /\ ErrorsOf(lc'[c].out) \cap {NetworkMsg, ServiceMsgConnect} = {}
    ]_vars

\* C12: once an instance has reported Error it never reports Connecting or
\* Connected again, and every connect request is made on an instance
\* constructed for it.
C12_ErrorTerminal ==
  /\ [][\A c \in Clients :
          (lc[c].reportedError /\ lc'[c] # lc[c]) =>
             \A i \in DOMAIN lc'[c].out :
                lc'[c].out[i] \notin {EvState(CONNECTING), EvState(CONNECTED)}
      ]_vars
  /\ [][\A c \in Clients :
          (lc'[c].connectCalled /\ ~lc[c].connectCalled) =>
             /\ c = created + 1 /\ created' = c /\ clientRef' = c
             /\ lc[c] = NewLiveClient
      ]_vars

\* an instance failed after the microphone was granted and the App then
\* connected a second instance
C12_Witness ==
  \E c \in Live :
     /\ lc[c].reportedError /\ lc[c].micRequested
     /\ lc[c].lastState = DISCONNECTED
     /\ created > c /\ lc[c + 1].lastState = CONNECTED

\* the step of instance c handled the open signal of one of its channels
OpenHandled(c) ==
  \E i \in DOMAIN lc[c].chans :
     /\ lc[c].chans[i].st = "connecting"
     /\ lc'[c] = HandleOpen(SetChan(lc[c], i, "open", "resolved"))

\* C13: Connected is reported only out of Connecting (the state reported
\* last before it is Connecting, never Disconnected or Error), and when it
\* is reported the capture pipeline is started.
C13_ConnectedFromConnecting ==
  [][\A c \in Live :
       OpenHandled(c) =>
          /\ lc[c].lastState = CONNECTING
          /\ lc'[c].processor # NULL /\ lc'[c].wired
    ]_vars

\* C14: once an interruption has been processed, no unit of the active set
\* was made from a chunk received before it, a chunk whose decode was in
\* progress when the interruption was handled included.
C14_InterruptionAtomic ==
  \A c \in Live : \A u \in lc[c].sources : u.id > lc[c].flushed

\* C15: every unit is started at a time that is not earlier than the
\* device clock at the moment it is scheduled.
C15_StartNotInPast ==
  \A c \in Live :
     LET e == lc[c].sched
     IN e.id # 0 => e.start >= e.now

\* C16: nextStartTime never decreases except in a step that processes an
\* interruption or tears the session down, and a step in which it
\* decreases leaves it 0.
C16_TimelineMonotone ==
  [][\A c \in Live :
       \/ lc'[c].nextStartTime >= lc[c].nextStartTime
       \/ /\ lc'[c].nextStartTime = 0
          /\ InterruptionHandled(c) \/ (lc'[c] # lc[c] /\ DisconnectRan(c))
    ]_vars

\* the timeline was reset by an interruption and has advanced again
C16_Witness ==
  \E c \in Live :
     /\ lc[c].flushed > 0 /\ lc[c].nextStartTime > 0
     /\ lc[c].sched.id > lc[c].flushed

\* the step of instance c handled, on a live session, the arrival or the
\* failed decode of a chunk that cannot be decoded, in a message without
\* the interrupted flag
FaultyChunkHandled(c) ==
  \/ \E m \in Messages(lc[c].nmsg + 1) :
       /\ m.audio \in {"badB64", "badPcm"} /\ ~m.interrupted
       /\ lc[c].outputAudioContext # NULL
       /\ lc'[c] = HandleMessageBegin(lc[c], m)
  \/ \E d \in lc[c].decoding :
       /\ ~d.ok /\ ~d.interrupted
       /\ lc[c].outputAudioContext # NULL
       /\ lc'[c] = HandleMessageResume(lc[c], d)

\* C17: a chunk whose decoding fails is dropped with no other effect:
\* nextStartTime and the active set are as before, onError is not invoked,
\* no state is reported and nothing is torn down.
C17_FaultyChunkDropped ==
  [][\A c \in Live :
       FaultyChunkHandled(c) =>
          /\ lc'[c].nextStartTime = lc[c].nextStartTime
          /\ lc'[c].sources = lc[c].sources
          /\ ErrorsOf(lc'[c].out) = {} /\ StatesOf(lc'[c].out) = <<>>
          /\ Handles(lc'[c]) = Handles(lc[c])
    ]_vars

\* the step of instance c handled, on a session already torn down, the
\* arrival of a message with an audio chunk or the completion of a decode
\* that was in flight when disconnect() ran
TornDownChunkHandled(c) ==
  /\ lc[c].connectCalled /\ TornDown(lc[c])
  /\ \/ \E m \in Messages(lc[c].nmsg + 1) :
          m.audio # "none" /\ lc'[c] = HandleMessageBegin(lc[c], m)
     \/ \E d \in lc[c].decoding : lc'[c] = HandleMessageResume(lc[c], d)

\* C18: an audio chunk handled when the session is already torn down is
\* discarded: no unit is created or added to the active set, onError is not
\* invoked, no state is reported and no exception escapes handleMessage.
C18_ChunkAfterTeardownDiscarded ==
  [][\A c \in Live :
       TornDownChunkHandled(c) =>
          /\ lc'[c].sched.id = 0 /\ lc'[c].sources = {}
          /\ lc'[c].decoding \subseteq lc[c].decoding
          /\ ErrorsOf(lc'[c].out) = {} /\ StatesOf(lc'[c].out) = <<>>
          /\ ~lc'[c].thrown
          /\ TornDown(lc'[c])
    ]_vars

\* a decode that was in flight when disconnect() ran has succeeded and its
\* chunk was discarded at line 169
C18_Witness ==
  \E c \in Live :
     /\ TornDown(lc[c]) /\ lc[c].lastState = DISCONNECTED
     /\ lc[c].caught = "context" /\ lc[c].decoding = {}

C20_OneFrameInFlight ==
  \A c \in Live :
     /\ \A i \in DOMAIN lc[c].chans : lc[c].chans[i].buf <= 1
     /\ lc[c].sent <= lc[c].nframe

\* C21: chunks are scheduled in the order received: of two units scheduled
\* with no interruption between them (both are in the active set), the one
\* whose message was delivered first ends no later than the other starts.
C21_ScheduledInArrivalOrder ==
  \A c \in Live : \A u, v \in lc[c].sources :
     u.id < v.id => u.start + u.dur <= v.start

\* the step of instance c delivered a capture frame whose send failed
SendFailed(c) ==
  /\ (lc[c].wired /\ lc[c].inputOpen) \/ lc[c].frameQueued
  /\ lc'[c] = OnAudioProcess(lc[c], TRUE)
  /\ lc'[c].sendResult = "failed"

\* C22: a failed send of a capture frame is swallowed: onError is not
\* invoked, no state is reported, nothing is torn down and no exception
\* escapes, and the frame that comes next is still sent.
C22_SendFailureSwallowed ==
  [][\A c \in Live :
       SendFailed(c) =>
          /\ lc'[c].out = <<>> /\ ~lc'[c].thrown
          /\ lc'[c].lastState = lc[c].lastState
          /\ Handles(lc'[c]) = Handles(lc[c])
          /\ lc'[c].wired = lc[c].wired
          /\ lc'[c].inputOpen = lc[c].inputOpen
          /\ lc'[c].tracksLive = lc[c].tracksLive
          /\ lc'[c].chans = lc[c].chans
          /\ OnAudioProcess(lc'[c], FALSE).sendResult = "sent"
    ]_vars

\* a frame was sent after the send of an earlier frame had failed
C22_Witness ==
  \E c \in Live :
     /\ lc[c].sendFailures >= 1 /\ lc[c].sendResult = "sent"
     /\ lc[c].lastState = CONNECTED

\* the step of instance c handled, on a live session, the arrival or the
\* completed decode of a chunk of duration 0, in a message without the
\* interrupted flag
EmptyChunkHandled(c) ==
  /\ lc[c].outputAudioContext # NULL
  /\ \/ \E m \in Messages(lc[c].nmsg + 1) :
          /\ m.audio = "ok" /\ m.dur = 0 /\ ~m.interrupted
          /\ lc'[c] = HandleMessageBegin(lc[c], m)
     \/ \E d \in lc[c].decoding :
          /\ d.ok /\ d.dur = 0 /\ ~d.interrupted
          /\ lc'[c] = HandleMessageResume(lc[c], d)

\* C23: handling an empty (zero-duration) chunk leaves nextStartTime
\* unchanged and adds no unit to the active set.
C23_EmptyChunkIgnored ==
  [][\A c \in Live :
       EmptyChunkHandled(c) =>
          /\ lc'[c].nextStartTime = lc[c].nextStartTime
          /\ lc'[c].sources = lc[c].sources
    ]_vars

\* what a session holds besides the playback scheduler: the device
\* handles, the devices and the capture graph behind them, and the channels
Outside(s) ==
  <<s.sessionPromise, s.inputAudioContext, s.outputAudioContext,
    s.mediaStream, s.processor, s.source, s.analyser,
    s.tracksLive, s.inputOpen, s.outputOpen, s.wired, s.chans, s.pc>>

\* C24: processing an interruption reports no state and no error and
\* leaves the input device, the output device, the remote channel and the
\* capture pipeline as they were.
C24_InterruptionOnlyFlushes ==
  [][\A c \in Live :
       InterruptionHandled(c) =>
          /\ StatesOf(lc'[c].out) = <<>> /\ ErrorsOf(lc'[c].out) = {}
          /\ lc'[c].lastState = lc[c].lastState
          /\ Outside(lc'[c]) = Outside(lc[c])
          /\ ~lc'[c].thrown
    ]_vars

\* an interruption was processed on a connected session with the capture
\* pipeline running and a unit in the active set
C24_Witness ==
  \E c \in Live :
     /\ lc[c].lastState = CONNECTED /\ lc[c].wired /\ lc[c].outputOpen
     /\ lc[c].afterFlush /\ lc[c].flushed = lc[c].nmsg
     /\ lc[c].stopped # {} /\ lc[c].sources = {}

\* C25: when the 'ended' event of a unit fires, exactly that unit leaves
\* the active set and nextStartTime and every other unit are unchanged; for
\* a unit already flushed by an interruption or a teardown nothing changes.
C25_EndedRemovesOnlyItsUnit ==
  [][\A c \in Live : \A id \in Ids(lc[c].sources) \cup lc[c].stopped :
       lc'[c] = OnEnded(Enter(lc[c]), id) =>
          /\ lc'[c].nextStartTime = lc[c].nextStartTime
          /\ \A u \in lc[c].sources : u \in lc'[c].sources <=> u.id # id
          /\ lc'[c].sources \subseteq lc[c].sources
          /\ id \notin Ids(lc[c].sources) => lc'[c].sources = lc[c].sources
          /\ lc'[c].out = <<>> /\ lc'[c].lastState = lc[c].lastState
          /\ Outside(lc'[c]) = Outside(lc[c])
    ]_vars

\* a unit has played to its end and left the active set while another
\* unit stays in it
C25_Witness ==
  \E c \in Live :
     /\ lc[c].ended = "active" /\ lc[c].stopped = {} /\ lc[c].flushed = 0
     /\ lc[c].sources # {} /\ lc[c].nextStartTime > 0

\* C26: teardown resets the playback timeline: once disconnect() has run
\* and the session is torn down, nextStartTime is 0.
C26_TeardownResetsTimeline ==
  \A c \in Live :
     (lc[c].lastState = DISCONNECTED /\ TornDown(lc[c]))
        => lc[c].nextStartTime = 0

\* number of onAudioData calls among the callbacks out
Samples(out) == Cardinality({i \in DOMAIN out : out[i] = EvAudioData})

\* C27: a handler invokes onAudioData exactly once if it scheduled a chunk
\* and not at all otherwise, and sampling changes neither nextStartTime,
\* the active set, the device handles nor the connection state.
C27_SamplerOncePerScheduledChunk ==
  \A c \in Live :
     /\ Samples(lc[c].out) = IF lc[c].sched.id # 0 THEN 1 ELSE 0
     /\ LET v == Visualize(lc[c])
        IN /\ v.nextStartTime = lc[c].nextStartTime
           /\ v.sources = lc[c].sources
           /\ Outside(v) = Outside(lc[c])
           /\ v.lastState = lc[c].lastState
           /\ StatesOf(v.out) = StatesOf(lc[c].out)

\* a handler scheduled a chunk and sampled once
C27_Witness ==
  \E c \in Live :
     /\ lc[c].sched.id # 0 /\ lc[c].sched.dur > 0
     /\ lc[c].out = <<EvAudioData>>
     /\ lc[c].sources # {}

====
